---- MODULE Spec2Model ----
(***************************************************************************)
(* The casino client (GameDashboard and SlotMachine components) together   *)
(* with the account ledger it talks to.  The client is translated from     *)
(* frontend/src/components/GameDashboard.js; the ledger behind the         *)
(* /api/spin, /api/daily-bonus and /api/user-stats endpoints is not part   *)
(* of the sources and is written from the engine description (sections     *)
(* 4.2 - 4.5).                                                             *)
(***************************************************************************)
EXTENDS Integers, Sequences, FiniteSets, Bags, TLC

(* ------------------------------ bounds --------------------------------- *)
\* requests the player or the interval timer starts in one behaviour (spins,
\* bonus claims, periodic status checks)
MaxRequests == 2
\* view changes (dashboard <-> slot machine) in one behaviour
MaxNav == 3
\* slider positions above the machine minimum the player can pick
MaxBetSteps == 1
\* clock ticks in one behaviour
MaxTicks == 2

\* study goals one user creates in one behaviour
MaxGoals == 2
\* cap of the backend's usage counter
MaxUsage == 6
\* longest username typed into the login form
MaxNameLen == 3
\* onLogin calls of one behaviour
MaxAttempts == 2
\* spins settled in one slot machine session
MaxSettled == 12
\* largest games-played count an account starts with
MaxGames == 250

(* ----------------------------- constants ------------------------------- *)
\* AI study plans a free-tier user may generate
FreeLimit == 5
\* hours between two clock ticks of the model
TickHours == 12
\* rolling daily-bonus window, in hours
BonusWindow == 24
\* daily bonus: base amount and per-level increment
BonusBase == 100
BonusPerLevel == 25
\* games per level, and the level that makes an account VIP
GamesPerLevel == 100
VipLevel == 5
\* free spins granted by a bonus trigger, bonus symbols needed, multiplier bump
FreeSpinsAward == 10
BonusCount == 3
MultiplierBump == 1
\* slider step and length of the kept game history
BetStep == 5
HistoryKeep == 9

Null == "null"

MachineTypes == {"classic_3_reel", "video_5_reel", "bonus_slots"}

\* SlotMachine.slotConfig
slotConfig ==
  [classic_3_reel |-> [reelCount |-> 3, minBet |-> 5,  maxBet |-> 100],
   video_5_reel   |-> [reelCount |-> 5, minBet |-> 10, maxBet |-> 200],
   bonus_slots    |-> [reelCount |-> 5, minBet |-> 15, maxBet |-> 300]]

VARIABLES
  now,          \* wall clock, in hours
  acct,         \* the ledger's account record
  user,         \* the user object the components receive as a prop
  view,         \* "dashboard" or "game": which component is mounted
  slotType,     \* machine type of the mounted SlotMachine
  gameState,    \* SlotMachine state
  gameHistory,  \* SlotMachine history, newest first
  dash,         \* GameDashboard state
  spins,        \* handleSpin invocations that have not finished, oldest first
  claims,       \* every claimDailyBonus invocation, oldest first
  polls,        \* checkDailyBonusStatus invocations that have not finished (a bag)
  navs,         \* view changes so far
  issued,       \* requests started so far
  study,        \* the study planner: AuthProvider user, localStorage, backend
  loginScreen   \* LoginScreen state and its onLogin call

casinoVars == <<now, acct, user, view, slotType, gameState, gameHistory, dash,
                spins, claims, polls, navs, issued>>

vars == <<casinoVars, study, loginScreen>>

(* --------------------------- pure functions ---------------------------- *)
Min(a, b) == IF a < b THEN a ELSE b

\* level = floor(games_played / 100) + 1
LevelOf(games) == (games \div GamesPerLevel) + 1

\* VIP once level >= 5
VipOf(level) == level >= VipLevel

\* faulty variant: the bonus is not doubled for VIP accounts
BonusAmountNoVip(level, vip) == BonusBase + level * BonusPerLevel


\* bonus amount = 100 + level * 25, doubled if VIP
BonusAmount(level, vip) ==
  (BonusBase + level * BonusPerLevel) * (IF vip THEN 2 ELSE 1)

\* A nullable timestamp is <<>> (null) or <<t>>.

\* faulty variant: the window must be exceeded, not just reached
CanClaimBonusStrict(a, t) ==
  a.lastBonus = <<>> \/ t - a.lastBonus[1] > BonusWindow

\* faulty variant: the window comparison the wrong way round
CanClaimBonusInverted(a, t) ==
  a.lastBonus = <<>> \/ t - a.lastBonus[1] <= BonusWindow

\* claimable if never claimed or now - lastBonusTimestamp >= 24h
CanClaimBonus(a, t) == a.lastBonus = <<>> \/ t - a.lastBonus[1] >= BonusWindow

\* next eligible time: lastBonusTimestamp + 24h
NextDailyBonus(a) ==
  IF a.lastBonus = <<>> THEN <<>> ELSE <<a.lastBonus[1] + BonusWindow>>

(* ------------------------------ paytable ------------------------------- *)
\* faulty variant: the classic top symbol priced like the second rule
PaytableLowJackpot(slot) ==
  IF slot = "classic_3_reel"
  THEN << [symbol |-> "diamond", mult |-> 500,  tier |-> "big"],
          [symbol |-> "seven",   mult |-> 500,  tier |-> "big"],
          [symbol |-> "star",    mult |-> 100,  tier |-> "medium"],
          [symbol |-> "bell",    mult |-> 50,   tier |-> "small"] >>
  ELSE << [symbol |-> "crown",   mult |-> 5000, tier |-> "jackpot"],
          [symbol |-> "diamond", mult |-> 2500, tier |-> "big"],
          [symbol |-> "money",   mult |-> 1000, tier |-> "medium"] >>

\* paytable rules in descending payout order (SlotMachine paytable card)
Paytable(slot) ==
  IF slot = "classic_3_reel"
  THEN << [symbol |-> "diamond", mult |-> 1000, tier |-> "jackpot"],
          [symbol |-> "seven",   mult |-> 500,  tier |-> "big"],
          [symbol |-> "star",    mult |-> 100,  tier |-> "medium"],
          [symbol |-> "bell",    mult |-> 50,   tier |-> "small"] >>
  ELSE << [symbol |-> "crown",   mult |-> 5000, tier |-> "jackpot"],
          [symbol |-> "diamond", mult |-> 2500, tier |-> "big"],
          [symbol |-> "money",   mult |-> 1000, tier |-> "medium"] >>

\* the bonus symbol of a machine (classic machines have none)
BonusSymbol(slot) == IF slot = "classic_3_reel" THEN Null ELSE "gift"

AllEqual(reels, sym) == \A i \in 1..Len(reels) : reels[i] = sym

CountOf(reels, sym) == Cardinality({i \in 1..Len(reels) : reels[i] = sym})

\* index of the first (best) matching rule, 0 if none
BestRule(slot, reels) ==
  LET pt == Paytable(slot)
      hits == {i \in 1..Len(pt) : AllEqual(reels, pt[i].symbol)}
  IN  IF hits = {} THEN 0 ELSE CHOOSE i \in hits : \A j \in hits : i <= j

\* evaluate(config, symbols) -> (tier, payoutMultiplier, bonusTriggered, freeSpinsAwarded)
Evaluate(slot, reels) ==
  LET r == BestRule(slot, reels)
      bonus == BonusSymbol(slot) # Null
               /\ CountOf(reels, BonusSymbol(slot)) >= BonusCount
  IN  [tier |-> IF r = 0 THEN Null ELSE Paytable(slot)[r].tier,
       mult |-> IF r = 0 THEN 0 ELSE Paytable(slot)[r].mult,
       bonusTriggered |-> bonus,
       freeSpinsAwarded |-> IF bonus THEN FreeSpinsAward ELSE 0]

\* reel outcomes the symbol generator is pinned to
ForcedReels(slot) ==
  IF slot = "classic_3_reel"
  THEN { <<"diamond", "diamond", "diamond">>,
         <<"cherry", "lemon", "orange">> }
  ELSE { <<"gift", "gift", "gift", "cherry", "lemon">>,
         <<"cherry", "lemon", "orange", "star", "bell">> }

(* ------------------------- ledger (server side) ------------------------ *)
\* faulty variant: validation that forgets the available credit
ValidateSpinNoCredit(a, slot, bet) ==
  IF slot \notin MachineTypes THEN "UnknownMachine"
  ELSE IF bet < slotConfig[slot].minBet \/ bet > slotConfig[slot].maxBet
       THEN "InvalidBet"
  ELSE "ok"

\* Validate: unknown machine, bet outside the machine bounds, bet above the
\* available credit unless a free spin is being consumed
ValidateSpin(a, slot, bet) ==
  IF slot \notin MachineTypes THEN "UnknownMachine"
  ELSE IF bet < slotConfig[slot].minBet \/ bet > slotConfig[slot].maxBet
       THEN "InvalidBet"
  ELSE IF a.freeSpins = 0 /\ bet > a.balance THEN "InsufficientCredits"
  ELSE "ok"

\* consumeFreeSpin: a free spin is available and is used for this spin
ConsumesFreeSpin(a) == a.freeSpins > 0

\* faulty variant: a spin without a bonus keeps the multiplier it found
SettledAccountNoReset(a, slot, bet, reels) ==
  LET free == ConsumesFreeSpin(a)
      ev == Evaluate(slot, reels)
      payout == bet * ev.mult
      games == a.gamesPlayed + 1
  IN  [balance |-> a.balance - (IF free THEN 0 ELSE bet) + payout,
       totalWinnings |-> a.totalWinnings + payout,
       gamesPlayed |-> games,
       level |-> LevelOf(games),
       vip |-> VipOf(LevelOf(games)),
       freeSpins |-> a.freeSpins - (IF free THEN 1 ELSE 0) + ev.freeSpinsAwarded,
       multiplier |-> a.multiplier + (IF ev.bonusTriggered THEN MultiplierBump ELSE 0),
       lastBonus |-> a.lastBonus]

\* ChargeOrFreeSpin .. Settle as one update of the account
SettledAccount(a, slot, bet, reels) ==
  LET free == ConsumesFreeSpin(a)
      ev == Evaluate(slot, reels)
      payout == bet * ev.mult
      games == a.gamesPlayed + 1
  IN  [balance |-> a.balance - (IF free THEN 0 ELSE bet) + payout,
       totalWinnings |-> a.totalWinnings + payout,
       gamesPlayed |-> games,
       level |-> LevelOf(games),
       vip |-> VipOf(LevelOf(games)),
       freeSpins |-> a.freeSpins - (IF free THEN 1 ELSE 0) + ev.freeSpinsAwarded,
       multiplier |-> IF ev.bonusTriggered THEN a.multiplier + MultiplierBump ELSE 1,
       lastBonus |-> a.lastBonus]

\* Respond: the SpinOutcome returned to the caller
SpinOutcome(a, slot, bet, reels) ==
  LET ev == Evaluate(slot, reels)
  IN  [reels |-> reels,
       payout |-> bet * ev.mult,
       win_type |-> ev.tier,
       free_spins_awarded |-> ev.freeSpinsAwarded,
       multiplier |-> SettledAccount(a, slot, bet, reels).multiplier,
       bonus_triggered |-> ev.bonusTriggered]

NoResult ==
  [reels |-> <<>>, payout |-> 0, win_type |-> Null, free_spins_awarded |-> 0,
   multiplier |-> 1, bonus_triggered |-> FALSE]

\* faulty variant: the credit without the timestamp
ClaimedAccountNoStamp(a, t) ==
  [a EXCEPT !.balance = a.balance + BonusAmount(a.level, a.vip)]

\* claimDailyBonus on the ledger: credit and timestamp in one update
ClaimedAccount(a, t) ==
  [a EXCEPT !.balance = a.balance + BonusAmount(a.level, a.vip),
            !.lastBonus = <<t>>]

(* --------------------------- client helpers ---------------------------- *)
\* SlotMachine state right after mounting: useState initial value, then the
\* slotType effect sets the reels and betAmount = config.minBet
InitialGameState(slot) ==
  [reels |-> IF slot = "classic_3_reel"
             THEN <<"cherry", "lemon", "orange">>
             ELSE <<"cherry", "lemon", "orange", "star", "bell">>,
   isSpinning |-> FALSE,
   betAmount |-> slotConfig[slot].minBet,
   lastWin |-> 0,
   winType |-> Null,
   freeSpinsRemaining |-> 0,
   bonusMultiplier |-> 1]

\* GameDashboard state right after mounting
InitialDash ==
  [dailyBonusAvailable |-> TRUE, timeUntilBonus |-> <<>>, loading |-> FALSE]

\* onUpdateUser(updates): the given fields replace those of the user object
UpdateUser(u, updates) ==
  [f \in DOMAIN u |-> IF f \in DOMAIN updates THEN updates[f] ELSE u[f]]

\* faulty variant: the distance to the next level is one game short
GamesForNextLevelShort(u) ==
  ((IF u.level = 0 THEN 1 ELSE u.level) * GamesPerLevel) - u.games_played - 1

\* gamesForNextLevel = ((user.level || 1) * 100) - (user.games_played || 0)
GamesForNextLevel(u) ==
  ((IF u.level = 0 THEN 1 ELSE u.level) * GamesPerLevel) - u.games_played

\* levelProgress = ((user.games_played || 0) % 100)
LevelProgress(u) == u.games_played % GamesPerLevel

\* the text under the progress bar of the level card
LevelCardText(u) ==
  IF GamesForNextLevel(u) > 0 THEN "games to next level" ELSE "Max level!"

\* faulty variant: a slider whose maximum is the credits alone
SliderValuesNoMax(slot, credits) ==
  {v \in slotConfig[slot].minBet..credits :
     /\ (v - slotConfig[slot].minBet) % BetStep = 0
     /\ \/ v <= slotConfig[slot].minBet + MaxBetSteps * BetStep
        \/ v + BetStep > credits}

\* the values the bet slider can emit: min = config.minBet,
\* max = Math.min(config.maxBet, user.credits), step 5.  Of these the model
\* takes the lowest MaxBetSteps + 1 positions and the highest one.
SliderValues(slot, credits) ==
  LET lo == slotConfig[slot].minBet
      hi == Min(slotConfig[slot].maxBet, credits)
  IN  {v \in lo..hi :
         /\ (v - lo) % BetStep = 0
         /\ \/ v <= lo + MaxBetSteps * BetStep
            \/ v + BetStep > hi}

\* faulty variant: a credits check that forgets the bet
InsufficientCreditsNoBet(u, g) == u.credits < 0

\* the credits check of handleSpin: user.credits < gameState.betAmount
InsufficientCredits(u, g) == u.credits < g.betAmount

\* faulty variant: the award replaces the counter instead of adding to it
SettledGameStateOverwrite(prev, result) ==
  [prev EXCEPT !.isSpinning = FALSE,
               !.reels = result.reels,
               !.lastWin = result.payout,
               !.winType = result.win_type,
               !.freeSpinsRemaining = result.free_spins_awarded,
               !.bonusMultiplier = result.multiplier]

\* faulty variant: the callback leaves the spinning flag set
SettledGameStateStillSpinning(prev, result) ==
  [prev EXCEPT !.reels = result.reels,
               !.lastWin = result.payout,
               !.winType = result.win_type,
               !.freeSpinsRemaining = prev.freeSpinsRemaining + result.free_spins_awarded,
               !.bonusMultiplier = result.multiplier]

\* setGameState(prev => ...) of the spin timeout callback
SettledGameState(prev, result) ==
  [prev EXCEPT !.isSpinning = FALSE,
               !.reels = result.reels,
               !.lastWin = result.payout,
               !.winType = result.win_type,
               !.freeSpinsRemaining = prev.freeSpinsRemaining + result.free_spins_awarded,
               !.bonusMultiplier = result.multiplier]

\* faulty variant: the catch block also clears the bonus state
CaughtGameStateCleared(prev) ==
  [prev EXCEPT !.isSpinning = FALSE,
               !.freeSpinsRemaining = 0,
               !.bonusMultiplier = 1]

\* setGameState(prev => ...) of the catch block of handleSpin
CaughtGameState(prev) == [prev EXCEPT !.isSpinning = FALSE]

\* faulty variant: the bet is deducted and the payout is left out
NewCreditsNoPayout(credits, bet, payout) == credits - bet

\* faulty variant: the payout is subtracted
NewCreditsPayoutSign(credits, bet, payout) == credits - bet - payout

\* newCredits = user.credits - gameState.betAmount + result.payout
NewCredits(credits, bet, payout) == credits - bet + payout

\* the onUpdateUser argument of the spin timeout callback; s is the invocation,
\* whose user and gameState are those of the render that created it
SpinUserUpdate(s) ==
  [credits |-> NewCredits(s.uCredits, s.bet, s.result.payout),
   total_winnings |-> s.uTotal + s.result.payout,
   games_played |-> s.uGames + 1]

\* faulty variant: the record is prepended and nothing is dropped
PushHistoryNoDrop(prev, s) ==
  << [reels |-> s.result.reels, bet |-> s.bet, win |-> s.result.payout,
      winType |-> s.result.win_type] >>
  \o prev

\* setGameHistory(prev => [entry, ...prev.slice(0, 9)])
\* (the id and timestamp of an entry are left out: nothing reads them)
PushHistory(prev, s) ==
  << [reels |-> s.result.reels, bet |-> s.bet, win |-> s.result.payout,
      winType |-> s.result.win_type] >>
  \o SubSeq(prev, 1, Min(Len(prev), HistoryKeep))

\* a finished invocation is dropped from the pending ones
Remove(reqs, i) == SubSeq(reqs, 1, i - 1) \o SubSeq(reqs, i + 1, Len(reqs))

\* a component that unmounts leaves its pending requests without a component
Unmounted(reqs) == [i \in DOMAIN reqs |-> [reqs[i] EXCEPT !.mounted = FALSE]]

\* checkDailyBonusStatus: GET /user-stats/{id}
NewPoll == [phase |-> "sent", can_claim_bonus |-> FALSE,
            next_daily_bonus |-> <<>>]

\* the [user] effect of GameDashboard: one status check per mount and per
\* change of the user prop
IssuePoll(ps) == ps (+) SetToBag({NewPoll})

\* the request budget of a behaviour is not used up
CanIssue(n) == n < MaxRequests

\* account records the login hands to the client: <<credits, games played>>
InitAccounts == { <<5, 99>>, <<20, 249>>, <<1000, 399>> }

(* ---------------------------- study planner ---------------------------- *)
\* a user record as the backend returns it (only the fields the limit uses)
StudyUser(tier, n) == [subscription_tier |-> tier, usage_count |-> n]

\* the study planner before anybody has logged in: no user in AuthProvider,
\* nothing in localStorage, the backend's record u, no goals, no plans
StudyStart(u) ==
  [user |-> <<>>, stored |-> <<>>, srv |-> u, goals |-> 0, plans |-> 0,
   notice |-> "none"]

FreeUser(n) == StudyUser("free", n)

\* JSON.stringify(user): the text kept under 'studybuddy_user', as the list
\* of its key/value pairs
Stringify(u) ==
  << <<"subscription_tier", u.subscription_tier>>,
     <<"usage_count", u.usage_count>> >>

\* faulty variant: the usage count is not read back
ParseNoUsage(text) ==
  [subscription_tier |-> text[1][2], usage_count |-> 0]

\* JSON.parse(storedUser)
Parse(text) ==
  [subscription_tier |-> text[1][2], usage_count |-> text[2][2]]

\* user.subscription_tier === 'free' && user.usage_count >= 5
AtFreeLimit(u) == u.subscription_tier = "free" /\ u.usage_count >= FreeLimit

(* ----------------------------- login screen ---------------------------- *)
\* characters a username is typed from
Chars == {" ", "a"}

\* values the username input can hold
Names == UNION {[1..n -> Chars] : n \in 0..MaxNameLen}

RECURSIVE TrimLeft(_)
TrimLeft(s) == IF s # <<>> /\ Head(s) = " " THEN TrimLeft(Tail(s)) ELSE s

RECURSIVE TrimRight(_)
TrimRight(s) ==
  IF s # <<>> /\ s[Len(s)] = " " THEN TrimRight(SubSeq(s, 1, Len(s) - 1)) ELSE s

\* String.prototype.trim: leading and trailing blanks removed
Trim(s) == TrimRight(TrimLeft(s))

\* LoginScreen right after mounting: useState('') and useState(false), no
\* onLogin call made
LoginStart ==
  [username |-> <<>>, loading |-> FALSE, pending |-> FALSE, arg |-> <<>>,
   calls |-> 0, last |-> "none"]

\* the casino right after login with account a = <<credits, games played>>
CasinoStart(a) ==
  /\ now = 0
  /\ acct = [balance |-> a[1], totalWinnings |-> 0, gamesPlayed |-> a[2],
             level |-> LevelOf(a[2]), vip |-> VipOf(LevelOf(a[2])),
             freeSpins |-> 0, multiplier |-> 1, lastBonus |-> <<>>]
  /\ user = [credits |-> a[1], total_winnings |-> 0, games_played |-> a[2],
             level |-> LevelOf(a[2]), vip_status |-> VipOf(LevelOf(a[2]))]
  /\ view = "dashboard"
  /\ slotType = "classic_3_reel"
  /\ gameState = InitialGameState("classic_3_reel")
  /\ gameHistory = <<>>
  /\ dash = InitialDash
  /\ spins = <<>>
  /\ claims = <<>>
  /\ polls = SetToBag({NewPoll})
  /\ navs = 0
  /\ issued = 0

Init ==
  /\ \E a \in InitAccounts : CasinoStart(a)
  /\ study = StudyStart(FreeUser(0))
  /\ loginScreen = LoginStart

(* ----------------------------- navigation ------------------------------ *)
\* GameDashboard.handleSlotSelect: onViewChange('game', {slotType}); the
\* dashboard unmounts and a fresh SlotMachine mounts.  A status check still
\* pending then only sets state of the unmounted dashboard, which has no
\* effect, so it is dropped here.
HandleSlotSelect(st) ==
  /\ view = "dashboard"
  /\ navs < MaxNav
  /\ navs' = navs + 1
  /\ view' = "game"
  /\ slotType' = st
  /\ gameState' = InitialGameState(st)
  /\ gameHistory' = <<>>
  /\ dash' = InitialDash
  /\ claims' = Unmounted(claims)
  /\ polls' = EmptyBag
  /\ UNCHANGED <<now, acct, user, spins, issued>>
  /\ UNCHANGED <<study, loginScreen>>

\* SlotMachine back button (never disabled): the SlotMachine unmounts, its
\* pending timeout is not cleared, and a fresh GameDashboard mounts
OnBack ==
  /\ view = "game"
  /\ navs < MaxNav
  /\ navs' = navs + 1
  /\ view' = "dashboard"
  /\ gameState' = InitialGameState(slotType)
  /\ gameHistory' = <<>>
  /\ dash' = InitialDash
  /\ spins' = Unmounted(spins)
  /\ polls' = IssuePoll(polls)
  /\ UNCHANGED <<now, acct, user, slotType, claims, issued>>
  /\ UNCHANGED <<study, loginScreen>>

(* ------------------------------- spins --------------------------------- *)
\* SlotMachine.handleBetChange with a value the slider emits
HandleBetChange(v) ==
  /\ view = "game"
  /\ ~gameState.isSpinning
  /\ gameState' = [gameState EXCEPT !.betAmount = v]
  /\ UNCHANGED <<now, acct, user, view, slotType, gameHistory, dash, spins,
                 claims, polls, navs, issued>>
  /\ UNCHANGED <<study, loginScreen>>

\* SlotMachine.handleSpin up to the request: guards, isSpinning, POST /spin
HandleSpin ==
  /\ view = "game"
  /\ ~gameState.isSpinning
  /\ IF InsufficientCredits(user, gameState)
     THEN UNCHANGED <<gameState, spins, issued>>
     ELSE /\ CanIssue(issued)
          /\ issued' = issued + 1
          /\ gameState' = [gameState EXCEPT !.isSpinning = TRUE, !.lastWin = 0,
                                            !.winType = Null]
          /\ spins' = Append(spins,
               [slot |-> slotType, bet |-> gameState.betAmount,
                uCredits |-> user.credits, uTotal |-> user.total_winnings,
                uGames |-> user.games_played, gs |-> gameState,
                mounted |-> TRUE,
                phase |-> "sent", result |-> NoResult, error |-> Null,
                free |-> FALSE])
  /\ UNCHANGED <<now, acct, user, view, slotType, gameHistory, dash, claims,
                 polls, navs>>
  /\ UNCHANGED <<study, loginScreen>>

\* resolveSpin on the ledger: one atomic update, or a validation failure
ServerSpin(i) ==
  /\ spins[i].phase = "sent"
  /\ LET s == spins[i]
         v == ValidateSpin(acct, s.slot, s.bet)
     IN  IF v = "ok"
         THEN \E reels \in ForcedReels(s.slot) :
                /\ acct' = SettledAccount(acct, s.slot, s.bet, reels)
                /\ spins' = [spins EXCEPT ![i].phase = "ok",
                               ![i].result = SpinOutcome(acct, s.slot, s.bet, reels),
                               ![i].free = ConsumesFreeSpin(acct)]
         ELSE /\ spins' = [spins EXCEPT ![i].phase = "rejected", ![i].error = v]
              /\ UNCHANGED acct
  /\ UNCHANGED <<now, user, view, slotType, gameState, gameHistory, dash,
                 claims, polls, navs, issued>>
  /\ UNCHANGED <<study, loginScreen>>

\* the setTimeout callback of handleSpin
SpinSettle(i) ==
  /\ spins[i].phase = "ok"
  /\ LET s == spins[i]
     IN  /\ IF s.mounted
            THEN /\ gameState' = SettledGameState(gameState, s.result)
                 /\ gameHistory' = PushHistory(gameHistory, s)
            ELSE UNCHANGED <<gameState, gameHistory>>
         /\ user' = UpdateUser(user, SpinUserUpdate(s))
         /\ polls' = IF view = "dashboard" THEN IssuePoll(polls) ELSE polls
  /\ spins' = Remove(spins, i)
  /\ UNCHANGED <<now, acct, view, slotType, dash, claims, navs, issued>>
  /\ UNCHANGED <<study, loginScreen>>

\* POST /spin fails before it reaches the ledger: axios.post rejects
SpinFail(i) ==
  /\ spins[i].phase = "sent"
  /\ spins' = [spins EXCEPT ![i].phase = "rejected", ![i].error = "NetworkError"]
  /\ UNCHANGED <<now, acct, user, view, slotType, gameState, gameHistory, dash,
                 claims, polls, navs, issued>>
  /\ UNCHANGED <<study, loginScreen>>

\* the catch block of handleSpin
SpinCatch(i) ==
  /\ spins[i].phase = "rejected"
  /\ IF spins[i].mounted
     THEN gameState' = CaughtGameState(gameState)
     ELSE UNCHANGED gameState
  /\ spins' = Remove(spins, i)
  /\ UNCHANGED <<now, acct, user, view, slotType, gameHistory, dash, claims,
                 polls, navs, issued>>
  /\ UNCHANGED <<study, loginScreen>>

(* ---------------------------- daily bonus ------------------------------ *)
\* GameDashboard.claimDailyBonus up to the request; the button is rendered
\* while dailyBonusAvailable and enabled while not loading
ClaimDailyBonus ==
  /\ view = "dashboard"
  /\ dash.dailyBonusAvailable
  /\ ~dash.loading
  /\ CanIssue(issued)
  /\ issued' = issued + 1
  /\ dash' = [dash EXCEPT !.loading = TRUE]
  /\ claims' = Append(claims,
       [mounted |-> TRUE, phase |-> "sent", new_balance |-> 0,
        bonus_amount |-> 0, at |-> now])
  /\ UNCHANGED <<now, acct, user, view, slotType, gameState, gameHistory,
                 spins, polls, navs>>
  /\ UNCHANGED <<study, loginScreen>>

\* claimDailyBonus on the ledger
ServerClaim(i) ==
  /\ claims[i].phase = "sent"
  /\ IF CanClaimBonus(acct, now)
     THEN /\ acct' = ClaimedAccount(acct, now)
          /\ claims' = [claims EXCEPT ![i].phase = "ok",
                          ![i].new_balance = ClaimedAccount(acct, now).balance,
                          ![i].bonus_amount = BonusAmount(acct.level, acct.vip),
                          ![i].at = now]
     ELSE /\ claims' = [claims EXCEPT ![i].phase = "rejected", ![i].at = now]
          /\ UNCHANGED acct
  /\ UNCHANGED <<now, user, view, slotType, gameState, gameHistory, dash,
                 spins, polls, navs, issued>>
  /\ UNCHANGED <<study, loginScreen>>

\* claimDailyBonus after a successful response, and its finally block
ClaimDone(i) ==
  /\ claims[i].phase = "ok"
  /\ user' = UpdateUser(user, [credits |-> claims[i].new_balance])
  /\ IF claims[i].mounted
     THEN dash' = [dash EXCEPT !.dailyBonusAvailable = FALSE, !.loading = FALSE]
     ELSE UNCHANGED dash
  /\ polls' = IF view = "dashboard" THEN IssuePoll(polls) ELSE polls
  /\ claims' = [claims EXCEPT ![i].phase = "done"]
  /\ UNCHANGED <<now, acct, view, slotType, gameState, gameHistory, spins,
                 navs, issued>>
  /\ UNCHANGED <<study, loginScreen>>

\* the catch and finally blocks of claimDailyBonus
ClaimCatch(i) ==
  /\ claims[i].phase = "rejected"
  /\ IF claims[i].mounted
     THEN dash' = [dash EXCEPT !.loading = FALSE]
     ELSE UNCHANGED dash
  /\ claims' = [claims EXCEPT ![i].phase = "failed"]
  /\ UNCHANGED <<now, acct, user, view, slotType, gameState, gameHistory,
                 spins, polls, navs, issued>>
  /\ UNCHANGED <<study, loginScreen>>

\* the 60 s interval of GameDashboard: checkDailyBonusStatus is called
CheckDailyBonusStatus ==
  /\ view = "dashboard"
  /\ CanIssue(issued)
  /\ polls' = IssuePoll(polls)
  /\ issued' = issued + 1
  /\ UNCHANGED <<now, acct, user, view, slotType, gameState, gameHistory,
                 dash, spins, claims, navs>>
  /\ UNCHANGED <<study, loginScreen>>

\* getStats on the ledger: can_claim_bonus and next_daily_bonus
ServerStats(p) ==
  /\ p.phase = "sent"
  /\ polls' = (polls (-) SetToBag({p})) (+)
              SetToBag({[phase |-> "answered",
                         can_claim_bonus |-> CanClaimBonus(acct, now),
                         next_daily_bonus |-> NextDailyBonus(acct)]})
  /\ UNCHANGED <<now, acct, user, view, slotType, gameState, gameHistory,
                 dash, spins, claims, navs, issued>>
  /\ UNCHANGED <<study, loginScreen>>

\* checkDailyBonusStatus after the response
StatusDone(p) ==
  /\ p.phase = "answered"
  /\ LET timeDiff == IF p.next_daily_bonus = <<>> THEN 0
                     ELSE p.next_daily_bonus[1] - now
     IN  dash' = [dash EXCEPT
                 !.dailyBonusAvailable = p.can_claim_bonus,
                 !.timeUntilBonus =
                    IF ~p.can_claim_bonus /\ p.next_daily_bonus # <<>> /\ timeDiff > 0
                    THEN <<timeDiff>> ELSE @]
  /\ polls' = polls (-) SetToBag({p})
  /\ UNCHANGED <<now, acct, user, view, slotType, gameState, gameHistory,
                 spins, claims, navs, issued>>
  /\ UNCHANGED <<study, loginScreen>>

\* time passes; the clock is only ever read against the last bonus timestamp,
\* so it is advanced only while there is one
Tick ==
  /\ acct.lastBonus # <<>>
  /\ now < MaxTicks * TickHours
  /\ now' = now + TickHours
  /\ UNCHANGED <<acct, user, view, slotType, gameState, gameHistory, dash,
                 spins, claims, polls, navs, issued>>
  /\ UNCHANGED <<study, loginScreen>>

Next ==
  \/ \E st \in MachineTypes : HandleSlotSelect(st)
  \/ OnBack
  \/ \E v \in SliderValues(slotType, user.credits) : HandleBetChange(v)
  \/ HandleSpin
  \/ \E i \in DOMAIN spins : ServerSpin(i)
  \/ \E i \in DOMAIN spins : SpinFail(i)
  \/ \E i \in DOMAIN spins : SpinSettle(i)
  \/ \E i \in DOMAIN spins : SpinCatch(i)
  \/ ClaimDailyBonus
  \/ \E i \in DOMAIN claims : ServerClaim(i)
  \/ \E i \in DOMAIN claims : ClaimDone(i)
  \/ \E i \in DOMAIN claims : ClaimCatch(i)
  \/ CheckDailyBonusStatus
  \/ \E p \in BagToSet(polls) : ServerStats(p)
  \/ \E p \in BagToSet(polls) : StatusDone(p)
  \/ Tick

Spec == Init /\ [][Next]_vars

\* The same system with its scheduling: the ledger answers every request it
\* has received, and a promise continuation or timeout that is due runs
LiveSpec ==
  /\ Spec
  /\ WF_vars(\E i \in DOMAIN spins : ServerSpin(i))
  /\ WF_vars(\E i \in DOMAIN spins : SpinSettle(i))
  /\ WF_vars(\E i \in DOMAIN spins : SpinCatch(i))

(* ------------------------ study planner actions ------------------------ *)
\* AuthProvider.login: POST /users, then setUser and localStorage.setItem;
\* a failed request is rethrown and nothing is stored
Login ==
  /\ study.user = <<>>
  /\ \/ study' = [study EXCEPT !.user = <<study.srv>>,
                                !.stored = <<Stringify(study.srv)>>,
                                !.notice = "logged_in"]
     \/ study' = [study EXCEPT !.notice = "login_failed"]
  /\ UNCHANGED <<casinoVars, loginScreen>>

\* AuthProvider.logout
Logout ==
  /\ study.user # <<>>
  /\ study' = [study EXCEPT !.user = <<>>, !.stored = <<>>, !.notice = "none"]
  /\ UNCHANGED <<casinoVars, loginScreen>>

\* page reload: AuthProvider mounts again and its effect reads localStorage
Reload ==
  /\ study' = [study EXCEPT
                 !.user = IF study.stored = <<>> THEN <<>>
                          ELSE <<Parse(study.stored[1])>>,
                 !.notice = "none"]
  /\ UNCHANGED <<casinoVars, loginScreen>>

\* Dashboard.upgradeSubscription
UpgradeSubscription ==
  /\ study.user # <<>>
  /\ \/ LET updatedUser == [study.user[1] EXCEPT !.subscription_tier = "premium"]
        IN  study' = [study EXCEPT !.srv.subscription_tier = "premium",
                                   !.user = <<updatedUser>>,
                                   !.stored = <<Stringify(updatedUser)>>,
                                   !.notice = "upgraded"]
     \/ study' = [study EXCEPT !.notice = "upgrade_failed"]
  /\ UNCHANGED <<casinoVars, loginScreen>>

\* CreateGoal.handleSubmit: the usage check, then POST /study-goals, which
\* the backend refuses on its own usage check or which fails otherwise
CreateGoalSubmit ==
  /\ study.user # <<>>
  /\ IF AtFreeLimit(study.user[1])
     THEN study' = [study EXCEPT !.notice = "goal_limit"]
     ELSE \/ /\ ~AtFreeLimit(study.srv)
             /\ study.goals < MaxGoals
             /\ study' = [study EXCEPT !.goals = @ + 1, !.notice = "goal_created"]
          \/ study' = [study EXCEPT !.notice = "goal_failed"]
  /\ UNCHANGED <<casinoVars, loginScreen>>

\* StudyPlan.generatePlan for a goal that has no plan yet: the usage check,
\* then POST /generate-study-plan; on success the incremented user is
\* written to localStorage only
GeneratePlan ==
  /\ study.user # <<>>
  /\ study.plans < study.goals
  /\ IF AtFreeLimit(study.user[1])
     THEN study' = [study EXCEPT !.notice = "plan_limit"]
     ELSE \/ /\ ~AtFreeLimit(study.srv)
             /\ study.srv.usage_count < MaxUsage
             /\ LET updatedUser ==
                      [study.user[1] EXCEPT !.usage_count = @ + 1]
                IN  study' = [study EXCEPT !.plans = @ + 1,
                                           !.srv.usage_count = @ + 1,
                                           !.stored = <<Stringify(updatedUser)>>,
                                           !.notice = "plan_made"]
          \/ /\ AtFreeLimit(study.srv)
             /\ study' = [study EXCEPT !.notice = "plan_429"]
          \/ study' = [study EXCEPT !.notice = "plan_failed"]
  /\ UNCHANGED <<casinoVars, loginScreen>>

\* the backend records the study planner starts from
StudyUsers == {StudyUser("free", 0), StudyUser("free", 4), StudyUser("free", 5),
               StudyUser("premium", 5)}

StudyInit ==
  /\ CasinoStart(<<5, 99>>)
  /\ \E u \in StudyUsers : study = StudyStart(u)
  /\ loginScreen = LoginStart

StudyNext ==
  \/ Login
  \/ Logout
  \/ Reload
  \/ UpgradeSubscription
  \/ CreateGoalSubmit
  \/ GeneratePlan

StudySpec == StudyInit /\ [][StudyNext]_vars

(* ------------------------- slot machine session ------------------------ *)
\* one whole spin of a session in which nothing else is in flight: handleSpin
\* up to the request, resolveSpin on the ledger with the given reels, and the
\* timeout callback, in that order
SessionSpin(reels) ==
  /\ view = "game"
  /\ ~gameState.isSpinning
  /\ spins = <<>>
  /\ issued < MaxSettled
  /\ ~InsufficientCredits(user, gameState)
  /\ ValidateSpin(acct, slotType, gameState.betAmount) = "ok"
  /\ LET s == [slot |-> slotType, bet |-> gameState.betAmount,
               uCredits |-> user.credits, uTotal |-> user.total_winnings,
               uGames |-> user.games_played, gs |-> gameState,
               mounted |-> TRUE, phase |-> "ok",
               result |-> SpinOutcome(acct, slotType, gameState.betAmount, reels),
               error |-> Null, free |-> ConsumesFreeSpin(acct)]
         clicked == [gameState EXCEPT !.isSpinning = TRUE, !.lastWin = 0,
                                      !.winType = Null]
     IN  /\ acct' = SettledAccount(acct, slotType, gameState.betAmount, reels)
         /\ gameState' = SettledGameState(clicked, s.result)
         /\ user' = UpdateUser(user, SpinUserUpdate(s))
         /\ gameHistory' = PushHistory(gameHistory, s)
  /\ issued' = issued + 1
  /\ UNCHANGED <<now, view, slotType, dash, spins, claims, polls, navs>>
  /\ UNCHANGED <<study, loginScreen>>

\* a player with 1000 credits opens a machine and spins
HistoryInit ==
  /\ CasinoStart(<<1000, 399>>)
  /\ study = StudyStart(FreeUser(0))
  /\ loginScreen = LoginStart

HistoryNext ==
  \/ \E st \in MachineTypes : HandleSlotSelect(st)
  \/ \E reels \in ForcedReels(slotType) : SessionSpin(reels)

HistorySpec == HistoryInit /\ [][HistoryNext]_vars

(* ----------------------------- level progress -------------------------- *)
\* a player who logs in with any games-played count, the level being the
\* one the ledger derived from it
ProgressInit ==
  /\ \E g \in 0..MaxGames : CasinoStart(<<1000, g>>)
  /\ study = StudyStart(FreeUser(0))
  /\ loginScreen = LoginStart

ProgressNext ==
  \/ \E st \in MachineTypes : HandleSlotSelect(st)
  \/ OnBack
  \/ \E reels \in ForcedReels(slotType) : CanIssue(issued) /\ SessionSpin(reels)

ProgressSpec == ProgressInit /\ [][ProgressNext]_vars

(* ------------------------- login screen actions ------------------------ *)
\* onChange of the username input, which is disabled while loading
SetUsername(v) ==
  /\ ~loginScreen.loading
  /\ loginScreen' = [loginScreen EXCEPT !.username = v]
  /\ UNCHANGED <<casinoVars, study>>

\* LoginScreen.handleSubmit up to the await; the form cannot be submitted
\* while loading (input and button are disabled)
HandleSubmit ==
  /\ ~loginScreen.loading
  /\ IF Trim(loginScreen.username) = <<>>
     THEN UNCHANGED loginScreen
     ELSE /\ loginScreen.calls < MaxAttempts
          /\ loginScreen' = [loginScreen EXCEPT
                               !.loading = TRUE,
                               !.pending = TRUE,
                               !.arg = Trim(loginScreen.username),
                               !.calls = @ + 1]
  /\ UNCHANGED <<casinoVars, study>>

\* the promise of onLogin resolves: handleSubmit continues after the await
OnLoginResolved ==
  /\ loginScreen.pending
  /\ loginScreen' = [loginScreen EXCEPT !.pending = FALSE, !.loading = FALSE,
                                        !.last = "resolved"]
  /\ UNCHANGED <<casinoVars, study>>

\* the promise of onLogin rejects: the await throws and handleSubmit ends
\* there, the statement after the await is not reached
OnLoginRejected ==
  /\ loginScreen.pending
  /\ loginScreen' = [loginScreen EXCEPT !.pending = FALSE, !.last = "rejected"]
  /\ UNCHANGED <<casinoVars, study>>

LoginInit ==
  /\ CasinoStart(<<5, 99>>)
  /\ study = StudyStart(FreeUser(0))
  /\ loginScreen = LoginStart

LoginNext ==
  \/ \E v \in Names : SetUsername(v)
  \/ HandleSubmit
  \/ OnLoginResolved
  \/ OnLoginRejected

LoginSpec == LoginInit /\ [][LoginNext]_vars

(* ------------------------------ properties ----------------------------- *)
\* C1: every resolved spin leaves the balance at exactly the balance before
\* it minus the bet plus the payout (stated for behaviours of spins only, in
\* which no bonus was claimed), so that the balance is the running sum
C1_BalanceExact ==
  [][\A i \in DOMAIN spins :
       (SpinSettle(i) /\ claims = <<>>) =>
         user'.credits = user.credits - spins[i].bet + spins[i].result.payout]_vars

\* C2: a spin resolved while the player has an outstanding free spin is not
\* charged: the new balance is the old balance plus the payout
C2_FreeSpinNotCharged ==
  [][\A i \in DOMAIN spins :
       (SpinSettle(i) /\ spins[i].mounted /\ spins[i].uCredits = user.credits
          /\ gameState.freeSpinsRemaining > 0)
       => user'.credits = user.credits + spins[i].result.payout]_vars

\* C3: a spin resolved while the free-spins counter is positive takes exactly
\* one free spin off the counter (before any newly awarded ones are added)
C3_FreeSpinConsumed ==
  [][\A i \in DOMAIN spins :
       (SpinSettle(i) /\ spins[i].mounted /\ gameState.freeSpinsRemaining > 0)
       => gameState'.freeSpinsRemaining =
            gameState.freeSpinsRemaining - 1 + spins[i].result.free_spins_awarded]_vars

C6_OncePerWindow ==
  /\ [](\A i, j \in DOMAIN claims :
          (i # j /\ claims[i].phase \in {"ok", "done"}
                 /\ claims[j].phase \in {"ok", "done"})
          => (claims[i].at - claims[j].at >= BonusWindow
              \/ claims[j].at - claims[i].at >= BonusWindow))
  /\ [][\A i \in DOMAIN claims :
          /\ (ServerClaim(i) /\ acct.lastBonus # <<>>
                /\ now - acct.lastBonus[1] < BonusWindow)
               => claims'[i].phase = "rejected" /\ acct' = acct
          /\ ClaimCatch(i) => user' = user /\ acct' = acct]_vars

\* C6 witness: one claim was credited and a later one, made inside the
\* window, has failed
C6_Witness ==
  \E i, j \in DOMAIN claims :
    /\ claims[i].phase = "done"
    /\ claims[j].phase = "failed"
    /\ claims[j].at - claims[i].at < BonusWindow
    /\ user.credits = claims[i].new_balance

C8_RejectedSpinNoMutation ==
  [][/\ (HandleSpin /\ user.credits < gameState.betAmount) => UNCHANGED vars
     /\ \A i \in DOMAIN spins :
          /\ (ServerSpin(i) /\ acct.freeSpins = 0 /\ spins[i].bet > acct.balance)
               => acct' = acct /\ user' = user /\ gameState' = gameState
          /\ SpinCatch(i) =>
               /\ acct' = acct /\ user' = user
               /\ gameState'.freeSpinsRemaining = gameState.freeSpinsRemaining]_vars

\* C8 witness: balance 5, bet 10, no free spin, no spin in flight: the state
\* in which handleSpin rejects the request
C8_Witness ==
  /\ view = "game"
  /\ ~gameState.isSpinning
  /\ user.credits = 5 /\ acct.balance = 5
  /\ gameState.betAmount = 10
  /\ gameState.freeSpinsRemaining = 0 /\ acct.freeSpins = 0
  /\ spins = <<>>

\* C9: the level of the user object is floor(games_played / 100) + 1
C9_LevelFormula == user.level = (user.games_played \div 100) + 1

\* C10: the balance is never negative, in the client and on the ledger
C10_NonNegative == user.credits >= 0 /\ acct.balance >= 0

\* C10 witness: a losing spin with bet = balance has been settled
C10_Witness ==
  /\ gameHistory # <<>>
  /\ gameHistory[1].win = 0
  /\ user.credits = 0

C12_FreeSpinNotBlocked ==
  (view = "game" /\ ~gameState.isSpinning
     /\ gameState.freeSpinsRemaining > 0 /\ acct.freeSpins > 0)
  => ~InsufficientCredits(user, gameState)

\* C13: a successful daily-bonus claim adds exactly 100 + level * 25 to the
\* balance, twice that for a VIP account; the response carries that amount
\* and the new balance, which the dashboard then shows
C13_BonusAmount ==
  [][\A i \in DOMAIN claims :
       /\ (ServerClaim(i) /\ claims'[i].phase = "ok") =>
            /\ acct.level >= 1
            /\ ~acct.vip => acct'.balance = acct.balance + 100 + acct.level * 25
            /\ acct.vip => acct'.balance = acct.balance + 2 * (100 + acct.level * 25)
            /\ claims'[i].bonus_amount = acct'.balance - acct.balance
            /\ claims'[i].new_balance = acct'.balance
       /\ ClaimDone(i) => user'.credits = claims[i].new_balance]_vars

\* C13 witness: a VIP account (level 5) has claimed and the 2 * 225 credits
\* are shown by the dashboard; non-VIP claims are credited as well
C13_Witness ==
  \E i \in DOMAIN claims :
    /\ claims[i].phase = "done"
    /\ acct.vip /\ acct.level = 5
    /\ claims[i].bonus_amount = 450
    /\ user.credits = claims[i].new_balance

\* C14: a claim succeeds exactly when there is no last-bonus timestamp or at
\* least 24 h have passed since it; the status answer says the same, and when
\* it refuses it reports lastBonusTimestamp + 24 h as the next eligible
\* time; a claim at or after that time succeeds
C14_Eligibility ==
  [][/\ \A i \in DOMAIN claims :
          ServerClaim(i) =>
            /\ (claims'[i].phase = "ok") =
                  (acct.lastBonus = <<>> \/ now - acct.lastBonus[1] >= 24)
            /\ (acct.lastBonus # <<>> /\ now >= acct.lastBonus[1] + 24)
                  => claims'[i].phase = "ok"
     /\ (\E p \in BagToSet(polls) : ServerStats(p)) =>
          \A q \in BagToSet(polls') :
            CopiesIn(q, polls') > CopiesIn(q, polls) =>
              /\ q.can_claim_bonus =
                    (acct.lastBonus = <<>> \/ now - acct.lastBonus[1] >= 24)
              /\ ~q.can_claim_bonus =>
                    q.next_daily_bonus = <<acct.lastBonus[1] + 24>>]_vars

\* C14 witness: the dashboard was told to wait (a refusing status answer
\* with the next eligible time), and a second claim made exactly 24 h after
\* the first one has been credited
C14_Witness ==
  /\ dash.timeUntilBonus # <<>>
  /\ \E i, j \in DOMAIN claims :
       /\ claims[i].phase = "done"
       /\ claims[j].phase = "ok"
       /\ claims[j].at = claims[i].at + 24

\* C15: classic 3-reel machine, bet 10, reels diamond-diamond-diamond: the
\* outcome is tier jackpot with payout 10000; the ledger balance becomes
\* old - 10 + 10000 (for a paid spin), and so does the balance the slot
\* machine shows when nothing else changed it since the spin was started
C15_ClassicJackpot ==
  [][\A i \in DOMAIN spins :
       /\ (ServerSpin(i) /\ spins[i].slot = "classic_3_reel" /\ spins[i].bet = 10
             /\ spins'[i].phase = "ok"
             /\ spins'[i].result.reels = <<"diamond", "diamond", "diamond">>)
          => /\ spins'[i].result.win_type = "jackpot"
             /\ spins'[i].result.payout = 10000
             /\ acct.freeSpins = 0 => acct'.balance = acct.balance - 10 + 10000
       /\ (SpinSettle(i) /\ spins[i].slot = "classic_3_reel" /\ spins[i].bet = 10
             /\ spins[i].result.reels = <<"diamond", "diamond", "diamond">>
             /\ spins[i].mounted /\ spins[i].uCredits = user.credits)
          => /\ user'.credits = user.credits - 10 + 10000
             /\ gameState'.lastWin = 10000
             /\ gameState'.winType = "jackpot"]_vars

\* C15 witness: that spin has been settled from a balance of 20: the slot
\* machine shows the jackpot and 20 - 10 + 10000 credits, as the ledger holds
C15_Witness ==
  /\ view = "game" /\ slotType = "classic_3_reel"
  /\ gameState.betAmount = 10
  /\ gameState.winType = "jackpot" /\ gameState.lastWin = 10000
  /\ gameState.reels = <<"diamond", "diamond", "diamond">>
  /\ user.credits = 10010 /\ acct.balance = 10010

\* C16: a bonus trigger adds its award to the free-spins counter: three
\* bonus symbols on a 5-reel machine give bonus_triggered and 10 free spins,
\* the ledger counter (after the free spin this spin may itself have used)
\* and the counter of the slot machine each grow by the award, so two
\* triggers add both awards
C16_BonusAdditive ==
  [][\A i \in DOMAIN spins :
       /\ (ServerSpin(i) /\ spins'[i].phase = "ok"
             /\ spins[i].slot \in {"video_5_reel", "bonus_slots"}
             /\ Cardinality({k \in 1..5 : spins'[i].result.reels[k] = "gift"}) >= 3)
          => /\ spins'[i].result.bonus_triggered
             /\ spins'[i].result.free_spins_awarded = 10
             /\ acct'.freeSpins =
                  acct.freeSpins - (IF acct.freeSpins > 0 THEN 1 ELSE 0) + 10
       /\ (SpinSettle(i) /\ spins[i].mounted)
          => gameState'.freeSpinsRemaining =
               gameState.freeSpinsRemaining + spins[i].result.free_spins_awarded]_vars

\* C16 witness: two bonus triggers in a row have been settled: the slot
\* machine counts 10 + 10 free spins
C16_Witness ==
  /\ view = "game"
  /\ Len(gameHistory) = 2
  /\ gameState.freeSpinsRemaining = 20
  /\ acct.freeSpins >= 19

\* C17: the VIP flag is true exactly when the level, floor(games played /
\* 100) + 1, has reached 5, on the ledger and in the user object the
\* components show, also right after the spin that takes the level from 4 to 5
C17_VipDerived ==
  /\ acct.vip = (acct.level >= 5)
  /\ acct.level = (acct.gamesPlayed \div 100) + 1
  /\ user.vip_status = ((user.games_played \div 100) + 1 >= 5)

\* C18: at most one spin or bonus claim of the account is in flight at any
\* time: from the request until it has settled or failed, no second request
\* is issued
C18_OneInFlight ==
  Len(spins)
    + Cardinality({i \in DOMAIN claims : claims[i].phase \in {"sent", "ok", "rejected"}})
  <= 1

C20_GoalNotLimited == study.notice # "goal_limit"

\* C21: the usage count the client tracks and displays (user.usage_count of
\* the AuthProvider user, shown as 'X/5 AI study plans') rises by exactly 1
\* with each successful plan generation
C21_UsageTracked ==
  [][(GeneratePlan /\ study'.plans = study.plans + 1)
       => study'.user[1].usage_count = study.user[1].usage_count + 1]_vars

\* C22: a successful login stores the logged-in user, a page reload restores
\* exactly the user that was stored at login, and after logout neither the
\* AuthProvider user nor the stored user exists
C22_SessionPersists ==
  [][/\ (Login /\ study'.notice = "logged_in") =>
          /\ study'.user = <<study.srv>>
          /\ study'.stored # <<>>
          /\ Parse(study'.stored[1]) = study'.user[1]
     /\ (Reload /\ study.user # <<>> /\ study.stored = <<Stringify(study.user[1])>>)
          => study'.user = study.user /\ study'.stored = study.stored
     /\ (Reload /\ study.stored = <<>>) => study'.user = <<>>
     /\ Logout => study'.user = <<>> /\ study'.stored = <<>>]_vars

\* C22 witness: a user with a non-zero usage count logged in and the page was
\* reloaded: AuthProvider holds the backend's record again
C22_Witness ==
  /\ study.notice = "none"
  /\ study.user = <<study.srv>>
  /\ study.srv.usage_count = 4
  /\ study.stored = <<Stringify(study.srv)>>

\* C27: the AuthProvider user and the user stored under 'studybuddy_user'
\* are equal field by field, or both absent
C27_UserMatchesStored ==
  \/ study.user = <<>> /\ study.stored = <<>>
  \/ /\ study.user # <<>> /\ study.stored # <<>>
     /\ Parse(study.stored[1]).subscription_tier = study.user[1].subscription_tier
     /\ Parse(study.stored[1]).usage_count = study.user[1].usage_count

\* C23: settling a spin adds its payout to the total-winnings counter and
\* adds exactly 1 to games played, so across settled spins games played
\* strictly increases and total winnings never decreases
C23_CountersAdvance ==
  [][\A i \in DOMAIN spins :
       SpinSettle(i) =>
         /\ user'.total_winnings = user.total_winnings + spins[i].result.payout
         /\ user'.games_played = user.games_played + 1]_vars

\* C24: the active multiplier is at least 1 in every state, is 1 after each
\* spin that triggers no bonus, and exceeds 1 only through a bonus trigger
C24_MultiplierFloor ==
  /\ [](gameState.bonusMultiplier >= 1 /\ acct.multiplier >= 1)
  /\ [][(\A i \in DOMAIN spins :
            /\ (ServerSpin(i) /\ spins'[i].phase = "ok") =>
                 /\ ~spins'[i].result.bonus_triggered => acct'.multiplier = 1
                 /\ acct'.multiplier > 1 => spins'[i].result.bonus_triggered
            /\ (SpinSettle(i) /\ spins[i].mounted) =>
                 /\ gameState'.bonusMultiplier = spins[i].result.multiplier
                 /\ ~spins[i].result.bonus_triggered =>
                      gameState'.bonusMultiplier = 1)
         /\ ((gameState'.bonusMultiplier > 1
              /\ gameState'.bonusMultiplier # gameState.bonusMultiplier) =>
                \E j \in DOMAIN spins :
                  SpinSettle(j) /\ spins[j].result.bonus_triggered)]_vars

\* a bonus spin raised the multiplier and the following plain spin of the
\* same session brought it back to 1
C24_Witness ==
  /\ Len(gameHistory) = 2
  /\ CountOf(gameHistory[2].reels, "gift") >= BonusCount
  /\ CountOf(gameHistory[1].reels, "gift") = 0
  /\ gameState.bonusMultiplier = 1
  /\ acct.multiplier = 1

\* C25 as stated: a failed spin request leaves the slot machine idle and
\* everything else as it was before the attempt
C25_NothingElseChanges ==
  [][\A i \in DOMAIN spins :
       (SpinCatch(i) /\ spins[i].mounted) =>
         gameState' = [spins[i].gs EXCEPT !.isSpinning = FALSE]]_vars

\* C25: a failed spin request leaves the slot machine idle; reels, bet,
\* free spins remaining and multiplier are those of before the attempt, the
\* last win and win type are the cleared ones the attempt set; no step of
\* the attempt changes the user, the ledger account or the game history
C25_FailedSpinIdle ==
  [][/\ (HandleSpin /\ spins' # spins) =>
          /\ user' = user /\ acct' = acct /\ gameHistory' = gameHistory
          /\ gameState' = [gameState EXCEPT !.isSpinning = TRUE,
                                            !.lastWin = 0, !.winType = Null]
     /\ \A i \in DOMAIN spins :
          /\ SpinFail(i) =>
               /\ user' = user /\ acct' = acct /\ gameHistory' = gameHistory
               /\ gameState' = gameState
          /\ (SpinCatch(i) /\ spins[i].mounted) =>
               /\ user' = user /\ acct' = acct /\ gameHistory' = gameHistory
               /\ gameState' = [spins[i].gs EXCEPT !.isSpinning = FALSE,
                                                   !.lastWin = 0,
                                                   !.winType = Null]]_vars

\* a spin paid out and was shown, and the next attempt of the same session
\* failed: the machine is idle, the history holds the one paid spin, its
\* reels are still shown and the last win is cleared
C25_Witness ==
  /\ view = "game" /\ ~gameState.isSpinning
  /\ issued = 2 /\ claims = <<>> /\ spins = <<>>
  /\ Len(gameHistory) = 1 /\ gameHistory[1].win > 0
  /\ acct.gamesPlayed = user.games_played
  /\ gameState.reels = gameHistory[1].reels
  /\ gameState.lastWin = 0

\* C26: once a claim has succeeded in the mounted dashboard, the dashboard
\* does not show the bonus as available while the ledger is within the
\* 24 h cooldown, whatever the order of status responses and the claim
C26_NoStaleAvailable ==
  ( /\ view = "dashboard" /\ navs = 0
    /\ \E i \in DOMAIN claims : claims[i].phase = "done" /\ claims[i].mounted
    /\ ~CanClaimBonus(acct, now) )
  => ~dash.dailyBonusAvailable

\* C29: every login attempt ends with loading = false, whether onLogin
\* resolved or rejected; onLogin is never called with a blank name and
\* loading is set only by an attempt that called it
C29_AttemptEndsIdle ==
  /\ ~loginScreen.pending => ~loginScreen.loading
  /\ loginScreen.calls > 0 =>
       loginScreen.arg # <<>> /\ loginScreen.arg = Trim(loginScreen.arg)
  /\ loginScreen.loading => loginScreen.calls > 0

\* C28: the game history holds at most 10 records, newest first: a settled
\* spin puts its record in front, the records before it move back one
\* place and the one beyond the tenth place is dropped; so the history
\* length is the number of spins settled in the session capped at 10
C28_HistoryCapped ==
  /\ [](Len(gameHistory) <= HistoryKeep + 1)
  /\ [](view = "game" => Len(gameHistory) = Min(issued, HistoryKeep + 1))
  /\ [][\A reels \in ForcedReels(slotType) :
          SessionSpin(reels) =>
            /\ gameHistory'[1].reels = reels
            /\ gameHistory'[1].bet = gameState.betAmount
            /\ Len(gameHistory') = Min(Len(gameHistory) + 1, HistoryKeep + 1)
            /\ \A k \in 1..(Len(gameHistory') - 1) :
                 gameHistory'[k + 1] = gameHistory[k]]_vars

\* twelve spins were settled in the session and the history shows ten
C28_Witness ==
  /\ view = "game"
  /\ issued = MaxSettled
  /\ Len(gameHistory) = HistoryKeep + 1
  /\ gameHistory[1].reels # gameHistory[HistoryKeep + 1].reels

\* C30: levelProgress is games_played mod 100; when the level is
\* floor(games_played / 100) + 1, gamesForNextLevel lies in 1..100 and
\* levelProgress + gamesForNextLevel = 100; 'Max level!' is shown only when
\* the level of the user object is not that of its games_played
C30_LevelProgress ==
  LET g == user.games_played
      fresh == user.level = (g \div 100) + 1
  IN  /\ g >= 0
      /\ LevelProgress(user) = g - 100 * (g \div 100)
      /\ fresh => /\ 1 <= GamesForNextLevel(user)
                  /\ GamesForNextLevel(user) <= 100
                  /\ LevelProgress(user) + GamesForNextLevel(user) = 100
      /\ LevelCardText(user) = "Max level!" =>
           ~fresh /\ GamesForNextLevel(user) <= 0

\* back on the dashboard after one game at level 2: 151 games played, 51 on
\* the progress bar, 49 games to the next level
C30_Witness ==
  /\ view = "dashboard" /\ issued = 1
  /\ user.games_played = 151 /\ user.level = 2
  /\ LevelProgress(user) = 51
  /\ GamesForNextLevel(user) = 49
  /\ LevelCardText(user) = "games to next level"

====
